---- MODULE Spec2Model ----
(***************************************************************************)
(* Model of the two replication scripts of the repository:                 *)
(*   script "A": src/replicate-envs.py            (thread-pool fan-out,    *)
(*               several object types per run)                             *)
(*   script "B": src/replicate/replicate-envs.py  (sequential, version     *)
(*               history, one object type per run)                         *)
(* JSON documents are tagged values; Python objects live in a heap of      *)
(* mutable dicts and lists, so that copying and aliasing are visible.      *)
(***************************************************************************)
EXTENDS Integers, Sequences, FiniteSets, TLC

\* ------------------------------------------------------------------------
\* Bounds of the model
\* ------------------------------------------------------------------------
MaxHookItems == 2
MaxObjects == 3
MaxTasks == 6
MaxVersions == 2
MaxTypes == 2

\* ------------------------------------------------------------------------
\* Program constants
\* ------------------------------------------------------------------------
PROJECT == "system-catalog"

\* ------------------------------------------------------------------------
\* JSON documents (what is on the wire and in files)
\* ------------------------------------------------------------------------
JStr(s) == [t |-> "str", s |-> s]
JDict(f) == [t |-> "dict", d |-> f]
JList(q) == [t |-> "list", l |-> q]
EmptyMap == <<>>

Without(f, ks) == [k \in (DOMAIN f) \ ks |-> f[k]]
With(f, k, v) == [x \in (DOMAIN f) \cup {k} |-> IF x = k THEN v ELSE f[x]]
Range(f) == {f[k] : k \in DOMAIN f}

\* ------------------------------------------------------------------------
\* The Python heap: address -> mutable dict or list; a slot of a dict or a
\* list holds a string or a reference.
\* ------------------------------------------------------------------------
Str(s) == [t |-> "str", s |-> s, r |-> 0]
Ref(a) == [t |-> "ref", s |-> "", r |-> a]
IsRef(v) == v.t = "ref"
DictObj(f) == [isList |-> FALSE, d |-> f, l |-> <<>>]
ListObj(q) == [isList |-> TRUE, d |-> EmptyMap, l |-> q]
EmptyHeap == <<>>

MaxAddr(h) == IF DOMAIN h = {} THEN 0 ELSE CHOOSE a \in DOMAIN h : \A b \in DOMAIN h : b <= a
Alloc(h, o) == [h |-> With(h, MaxAddr(h) + 1, o), a |-> MaxAddr(h) + 1]

IsDict(h, v) == IsRef(v) /\ ~h[v.r].isList
IsList(h, v) == IsRef(v) /\ h[v.r].isList
Slots(o) == IF o.isList THEN Range(o.l) ELSE Range(o.d)

\* dict.pop(k, None) for every k of ks, on the dict at address a
Pop(h, a, ks) == [h EXCEPT ![a].d = Without(@, ks)]
\* dict[k] = v
SetItem(h, a, k, v) == [h EXCEPT ![a].d = With(@, k, v)]

\* json.load / resp.json(): builds fresh objects for a document
RECURSIVE Load(_, _), LoadDict(_, _, _, _), LoadList(_, _, _, _)
Load(h, x) ==
  IF x.t = "str" THEN [h |-> h, v |-> Str(x.s)]
  ELSE IF x.t = "dict" THEN LoadDict(h, x.d, DOMAIN x.d, EmptyMap)
  ELSE LoadList(h, x.l, 1, <<>>)
LoadDict(h, f, todo, acc) ==
  IF todo = {} THEN LET n == Alloc(h, DictObj(acc)) IN [h |-> n.h, v |-> Ref(n.a)]
  ELSE LET k == CHOOSE k \in todo : TRUE
           c == Load(h, f[k])
       IN LoadDict(c.h, f, todo \ {k}, With(acc, k, c.v))
LoadList(h, q, i, acc) ==
  IF i > Len(q) THEN LET n == Alloc(h, ListObj(acc)) IN [h |-> n.h, v |-> Ref(n.a)]
  ELSE LET c == Load(h, q[i]) IN LoadList(c.h, q, i + 1, Append(acc, c.v))

\* json.dump: the document an object serialises to
RECURSIVE Dump(_, _)
Dump(h, v) ==
  IF v.t = "str" THEN JStr(v.s)
  ELSE LET o == h[v.r]
       IN IF o.isList THEN JList([i \in DOMAIN o.l |-> Dump(h, o.l[i])])
          ELSE JDict([k \in DOMAIN o.d |-> Dump(h, o.d[k])])

\* addresses reachable from a set of addresses
RECURSIVE Reach(_, _)
Reach(h, as) ==
  LET more == as \cup {v.r : v \in {s \in UNION {Slots(h[a]) : a \in as} : IsRef(s)}}
  IN IF more = as THEN as ELSE Reach(h, more)

\* copy.copy: a new top-level dict sharing every nested object
ShallowCopy(h, a) == Alloc(h, h[a])

\* copy.deepcopy: every object reachable from a is duplicated at a fresh address
DeepCopy(h, a) ==
  LET off == MaxAddr(h)
      R == Reach(h, {a})
      mv(v) == IF IsRef(v) THEN Ref(v.r + off) ELSE v
      cp(o) == IF o.isList THEN ListObj([i \in DOMAIN o.l |-> mv(o.l[i])])
               ELSE DictObj([k \in DOMAIN o.d |-> mv(o.d[k])])
  IN [h |-> [x \in (DOMAIN h) \cup {b + off : b \in R} |->
                IF x \in DOMAIN h THEN h[x] ELSE cp(h[x - off])],
      a |-> a + off]

\* d.get(k, {}): the object under k, or a new empty dict
GetOrNewDict(h, a, k) ==
  IF k \in DOMAIN h[a].d THEN [h |-> h, a |-> h[a].d[k].r]
  ELSE Alloc(h, DictObj(EmptyMap))

\* ------------------------------------------------------------------------
\* Object Cleaner, script B
\* ------------------------------------------------------------------------
MetaFieldsB == {"id", "modifiedAt", "createdAt", "projectID", "createdBy", "modifiedBy"}

\* the hook definitions visited by "for hook_type, hook_list in hooks.items():
\* if list: for hook_item in hook_list: if dict"
HookItemsFirstOnly(h, hooks) ==
  LET all == {v.r : v \in {s \in UNION {Slots(h[lv.r]) : lv \in {x \in Slots(h[hooks]) : IsList(h, x)}} : IsDict(h, s)}}
      hit == {a \in all : "agents" \in DOMAIN h[a].d}
  IN IF hit = {} THEN {} ELSE {CHOOSE a \in hit : \A b \in hit : a <= b}
HookItems(h, hooks) ==
  {v.r : v \in {s \in UNION {Slots(h[lv.r]) : lv \in {x \in Slots(h[hooks]) : IsList(h, x)}} : IsDict(h, s)}}

\* the body of "if 'spec' in cleaned and isinstance(cleaned['spec'], dict)"
StripSpecB(h, sp) ==
  LET h1 == Pop(h, sp, {"sharing", "agents"})
      hk == IF "hooks" \in DOMAIN h1[sp].d THEN h1[sp].d["hooks"] ELSE Str("")
      \* "if hooks and isinstance(hooks, dict)": a non-empty dict
      go == IsDict(h1, hk) /\ DOMAIN h1[hk.r].d # {}
      items == IF go THEN HookItems(h1, hk.r) ELSE {}
  IN [a \in DOMAIN h1 |-> IF a \in items THEN [h1[a] EXCEPT !.d = Without(@, {"agents"})] ELSE h1[a]]

remove_unwanted_fields_B(h, obj) ==
  LET c == DeepCopy(h, obj)
      cleaned == c.a
      m == GetOrNewDict(c.h, cleaned, "metadata")
      h1 == Pop(m.h, m.a, MetaFieldsB)
      h2 == SetItem(h1, m.a, "project", Str(PROJECT))
      h3 == SetItem(h2, cleaned, "metadata", Ref(m.a))
      h4 == IF "spec" \in DOMAIN h3[cleaned].d /\ IsDict(h3, h3[cleaned].d["spec"])
            THEN StripSpecB(h3, h3[cleaned].d["spec"].r) ELSE h3
      h5 == Pop(h4, cleaned, {"status"})
  IN [h |-> h5, a |-> cleaned]

\* ------------------------------------------------------------------------
\* Object Cleaner, script A
\* ------------------------------------------------------------------------
MetaFieldsA == {"id", "modifiedAt", "createdAt", "projectID"}

remove_unwanted_fields_A(h, item) ==
  LET c == DeepCopy(h, item)
      cleaned == c.a
      m == GetOrNewDict(c.h, cleaned, "metadata")
      h1 == Pop(m.h, m.a, MetaFieldsA)
      h2 == SetItem(h1, cleaned, "metadata", Ref(m.a))
      h3 == Pop(h2, cleaned, {"status"})
      s == GetOrNewDict(h3, cleaned, "spec")
      h4 == Pop(s.h, s.a, {"sharing"})
      h5 == SetItem(h4, cleaned, "spec", Ref(s.a))
  IN [h |-> h5, a |-> cleaned]

remove_unwanted_fields(script, h, obj) ==
  IF script = "A" THEN remove_unwanted_fields_A(h, obj) ELSE remove_unwanted_fields_B(h, obj)

\* ------------------------------------------------------------------------
\* Cleaning one record: the record is parsed, cleaned, optionally cleaned a
\* second time, and the raw and cleaned forms are serialised.
\* ------------------------------------------------------------------------
VARIABLES cscript, heap, src, fetched, out1, out2, rawFile, cleanedFile, cpc

cvars == <<cscript, heap, src, fetched, out1, out2, rawFile, cleanedFile, cpc>>

VARIABLES
  script,            \* "A" or "B": which script runs
  srcIsDir,          \* the source endpoint is a directory (does not start with "http")
  tgtIsDir,          \* the target endpoint is a directory
  codes,             \* environment: the status codes the target API may answer
  faulty,            \* environment: I/O and transport faults may occur in this run
  types,             \* object_types selected on the command line, in order
  catalog,           \* environment: per selected type, what the source holds
  tgtDisk,           \* the target directory tree: path -> document
  ti,                \* index in types of the type being replicated
  items,             \* replicate_objects: items
  cleaned,           \* script A: cleaned_objects
  tasks,             \* script A: the futures of the executor, by item index
  success_list,      \* replicate_objects: successes
  failure_list,      \* replicate_objects: failures
  overall_success,   \* script A main: overall_success
  overall_failures,  \* script A main: overall_failures
  pc,                \* control point of the main thread
  exc,               \* the exception propagating in the main thread ("" if none)
  ii,                \* script B: index of the item of the "for item in items" loop
  versions,          \* script B: versions of the current item
  vi,                \* script B: index in versions
  verLog,            \* history: per processed item, how its versions were obtained
  diskFault          \* history: a disk operation has failed in this run

pvars == <<script, srcIsDir, tgtIsDir, codes, faulty, types, catalog, tgtDisk, ti, items, cleaned,
           tasks, success_list, failure_list, overall_success, overall_failures, pc, exc,
           ii, versions, vi, verLog, diskFault>>
vars == <<cvars, pvars>>

NoDoc == JStr("<none>")
X == JStr("x")

\* metadata of the input records
MetaKeySets ==
  {S \cup {"name"} : S \in SUBSET MetaFieldsB}
    \cup {{}, {"id"}, {"name", "labels"}, MetaFieldsB \cup {"name", "labels"}}
MetaField(k) == IF k = "name" THEN JStr("a")
                ELSE IF k = "labels" THEN JDict([env |-> X]) ELSE X
MetaDocs ==
  {JDict([k \in S |-> MetaField(k)]) : S \in MetaKeySets}
    \cup {JDict([k \in S \cup {"project"} |-> IF k = "project" THEN JStr(p) ELSE MetaField(k)]) :
            S \in {{"name"}, MetaFieldsB \cup {"name"}}, p \in {PROJECT, "other-project"}}

\* hook definitions, lists of them, and the hooks mapping
HookItemDocs == {JDict([name |-> X]), JDict([name |-> X, agents |-> JList(<<X>>)])}
RECURSIVE SeqsUpTo(_, _)
SeqsUpTo(S, n) ==
  IF n = 0 THEN {<<>>}
  ELSE LET shorter == SeqsUpTo(S, n - 1)
       IN shorter \cup {Append(q, e) : q \in {x \in shorter : Len(x) = n - 1}, e \in S}
HookListDocs == {JList(q) : q \in SeqsUpTo(HookItemDocs, MaxHookItems)} \cup {JList(<<X, JDict([agents |-> X])>>)}
HooksDocs ==
  {JDict([onInit |-> l]) : l \in HookListDocs}
    \cup {JDict(EmptyMap), JList(<<JDict([agents |-> X])>>), JDict([onInit |-> X]),
          JDict([onInit |-> JList(<<JDict([agents |-> X])>>), onDestroy |-> JList(<<JDict([name |-> X, agents |-> X])>>)])}
SpecBase == {JDict([k \in S |-> IF k = "sharing" THEN JDict([team |-> X]) ELSE X]) :
               S \in {T \cup {"version"} : T \in SUBSET {"sharing", "agents"}} \cup {{}}}
SpecDocs ==
  SpecBase \cup {JDict(With(b.d, "hooks", hk)) :
                   b \in {x \in SpecBase : DOMAIN x.d \in {{"version"}, {"version", "sharing", "agents"}}},
                   hk \in HooksDocs}

\* an input record: metadata, spec and status each present or absent
InputDoc(m, s, st) ==
  LET t == [metadata |-> m, spec |-> s, status |-> st]
  IN JDict([k \in {f \in {"metadata", "spec", "status"} : t[f] # NoDoc} \cup {"kind"} |->
              IF k = "kind" THEN X ELSE t[k]])

CleanInit ==
  /\ cscript \in {"A", "B"}
  /\ \E m \in MetaDocs \cup {NoDoc}, s \in SpecDocs \cup {NoDoc}, st \in {NoDoc, JDict([ready |-> X])} :
       LET l == Load(EmptyHeap, InputDoc(m, s, st))
       IN /\ heap = l.h
          /\ src = l.v.r
          /\ fetched = InputDoc(m, s, st)
  /\ out1 = 0
  /\ out2 = 0
  /\ rawFile = NoDoc
  /\ cleanedFile = NoDoc
  /\ cpc = "loaded"

\* cleaned = remove_unwanted_fields(obj)
CleanOnce ==
  /\ cpc = "loaded"
  /\ LET c == remove_unwanted_fields(cscript, heap, src)
     IN /\ heap' = c.h
        /\ out1' = c.a
  /\ cpc' = "cleaned"
  /\ UNCHANGED <<cscript, src, fetched, out2, rawFile, cleanedFile, pvars>>

\* remove_unwanted_fields applied to its own result
CleanAgain ==
  /\ cpc = "cleaned"
  /\ LET c == remove_unwanted_fields(cscript, heap, out1)
     IN /\ heap' = c.h
        /\ out2' = c.a
  /\ cpc' = "recleaned"
  /\ UNCHANGED <<cscript, src, fetched, out1, rawFile, cleanedFile, pvars>>

\* json.dump of the raw record and of the cleaned record, after cleaning
Persist ==
  /\ cpc = "cleaned"
  /\ rawFile' = Dump(heap, Ref(src))
  /\ cleanedFile' = Dump(heap, Ref(out1))
  /\ cpc' = "persisted"
  /\ UNCHANGED <<cscript, heap, src, fetched, out1, out2, pvars>>

CleanNext == CleanOnce \/ CleanAgain \/ Persist

\* ------------------------------------------------------------------------
\* The replication pipeline: state shared by script A and script B
\* ------------------------------------------------------------------------

MAX_WORKERS == 5
OBJECT_TYPES_A == <<"workflowhandlers", "configcontexts", "resourcetemplates", "environmenttemplates">>
OBJECT_TYPES_B == <<"workflowhandlers", "configcontexts", "resourcetemplates", "environmenttemplates",
                    "computeprofiles", "serviceprofiles">>

Names == <<"a", "b", "c", "d", "e", "f", "g", "h">>
Vers == <<"v1", "v2", "v3", "v4", "v5", "v6", "v7", "v8">>

\* a catalog object named n at version v, carrying volatile fields
PipeObj(n, v) ==
  JDict([metadata |-> JDict([name |-> JStr(n), id |-> X, createdBy |-> X]),
         spec |-> JDict([version |-> JStr(v), sharing |-> X, agents |-> X]),
         status |-> X])
\* what a source may hold for one type: n objects with distinct names, n versions
\* of one object, or n copies of one object
ListingKinds == {"distinct", "same", "copies"}
Listing(kind, n) ==
  [i \in 1..n |-> PipeObj(IF kind = "distinct" THEN Names[i] ELSE Names[1],
                          IF kind = "same" THEN Vers[i] ELSE Vers[1])]

\* file names and paths below a directory endpoint
FileName(n, v, e) == [name |-> n, ver |-> v, ext |-> e]
Path(type, sub, file) == [type |-> type, sub |-> sub, file |-> file]
\* a directory entry of <source>/<type>/
Entry(file, isDir, doc) == [file |-> file, isDir |-> isDir, doc |-> doc]
Malformed == JStr("<malformed>")
SourceEntries(listing) ==
  [i \in DOMAIN listing |-> Entry(FileName(Names[i], "", ".json"), FALSE, listing[i])]

\* obj["metadata"].get("name", default)
NameOf(doc, default) ==
  IF "name" \in DOMAIN doc.d["metadata"].d THEN doc.d["metadata"].d["name"].s ELSE default
\* version_obj.get("spec", {}).get("version")
VersionOf(doc) ==
  IF "spec" \in DOMAIN doc.d /\ "version" \in DOMAIN doc.d["spec"].d
  THEN doc.d["spec"].d["version"].s ELSE ""

\* cleaned = remove_unwanted_fields(obj) on a parsed document: the cleaned
\* document, and the document obj serialises to afterwards
DumpPair(c, v) == [cleaned |-> Dump(c.h, Ref(c.a)), raw |-> Dump(c.h, v)]
CleanLoaded(s, l) == DumpPair(remove_unwanted_fields(s, l.h, l.v.r), l.v)
CleanPair(s, doc) == CleanLoaded(s, Load(EmptyHeap, doc))

Msg(kind, code, text) == [kind |-> kind, code |-> code, text |-> text]
Outcome(type, name, ver, msg) == [type |-> type, name |-> name, ver |-> ver, msg |-> msg]
NoTask == [st |-> "none", ok |-> FALSE, raised |-> FALSE, out |-> Outcome("", "", "", Msg("", 0, ""))]

RECURSIVE SumSeq(_)
SumSeq(q) == IF q = <<>> THEN 0 ELSE Head(q) + SumSeq(Tail(q))

CleanIdle ==
  /\ cscript = "-"
  /\ heap = EmptyHeap
  /\ src = 0
  /\ fetched = NoDoc
  /\ out1 = 0
  /\ out2 = 0
  /\ rawFile = NoDoc
  /\ cleanedFile = NoDoc
  /\ cpc = "idle"

PipeIdle ==
  /\ script = "-"
  /\ srcIsDir = FALSE
  /\ tgtIsDir = FALSE
  /\ codes = {}
  /\ faulty = FALSE
  /\ types = <<>>
  /\ catalog = <<>>
  /\ tgtDisk = EmptyMap
  /\ ti = 0
  /\ items = <<>>
  /\ cleaned = <<>>
  /\ tasks = <<>>
  /\ success_list = <<>>
  /\ failure_list = <<>>
  /\ overall_success = <<>>
  /\ overall_failures = <<>>
  /\ pc = "idle"
  /\ exc = ""
  /\ ii = 0
  /\ versions = <<>>
  /\ vi = 0
  /\ verLog = <<>>
  /\ diskFault = FALSE

\* the start of a run: main() has parsed its arguments and found its credentials
PipeStart(s, sel, sd, td, cs, f, cat) ==
  /\ script = s
  /\ srcIsDir = sd
  /\ tgtIsDir = td
  /\ codes = cs
  /\ faulty = f
  /\ types = sel
  /\ catalog = cat
  /\ tgtDisk = EmptyMap
  /\ ti = 1
  /\ items = <<>>
  /\ cleaned = <<>>
  /\ tasks = <<>>
  /\ success_list = <<>>
  /\ failure_list = <<>>
  /\ overall_success = <<>>
  /\ overall_failures = <<>>
  /\ pc = "replicate"
  /\ exc = ""
  /\ ii = 0
  /\ versions = <<>>
  /\ vi = 0
  /\ verLog = <<>>
  /\ diskFault = FALSE

\* ------------------------------------------------------------------------
\* Environment: what a request or a disk operation can do
\* ------------------------------------------------------------------------
\* the answer to a POST: a status code, or 0 for a transport-level exception
PostResults == codes \cup (IF faulty THEN {0} ELSE {})
RawDumpFile == FileName("raw-dump-get", "", ".json")
CurType == types[ti]

\* ------------------------------------------------------------------------
\* Script A: Target Writer
\* ------------------------------------------------------------------------
post_object_to_url_A(obj, r) ==
  LET name == NameOf(obj, "<unknown>")
  IN IF r = 0 THEN [ok |-> FALSE, raised |-> FALSE, out |-> Outcome("", name, "", Msg("exception", 0, "ConnectionError"))]
     ELSE IF r \in {200, 201} THEN [ok |-> TRUE, raised |-> FALSE, out |-> Outcome("", name, "", Msg("created", 0, ""))]
     ELSE IF r = 409 THEN [ok |-> TRUE, raised |-> FALSE, out |-> Outcome("", name, "", Msg("exists", 409, ""))]
     ELSE [ok |-> FALSE, raised |-> FALSE, out |-> Outcome("", name, "", Msg("status", r, "body"))]

\* "if raw_blob:" a non-empty dict is written under raw/
WritesRaw(raw_blob) == raw_blob # JDict(EmptyMap)

\* o: "ok", or the operation that fails: "mkdir" (os.makedirs, outside the
\* try), "open" (the cleaned file), "raw" (the raw file, after the cleaned one)
write_object_to_disk(disk, obj_type, obj, raw_blob, o) ==
  LET obj_name == NameOf(obj, "unknown")
      cleaned_file == Path(obj_type, "", FileName(obj_name, "", ".json"))
      raw_file == Path(obj_type, "raw", FileName(obj_name, "", ".json"))
      d1 == With(disk, cleaned_file, obj)
  IN IF o = "mkdir"
     THEN [disk |-> disk, ok |-> FALSE, raised |-> TRUE, out |-> Outcome("", obj_name, "", Msg("makedirs(obj_path): OSError", 0, ""))]
     ELSE IF o = "open"
     THEN [disk |-> disk, ok |-> FALSE, raised |-> FALSE,
           out |-> Outcome("", obj_name, "", Msg("diskfail", 0, "OSError"))]
     ELSE IF o = "raw" /\ WritesRaw(raw_blob)
     THEN [disk |-> d1, ok |-> FALSE, raised |-> FALSE,
           out |-> Outcome("", obj_name, "", Msg("diskfail", 0, "OSError"))]
     ELSE [disk |-> IF WritesRaw(raw_blob) THEN With(d1, raw_file, raw_blob) ELSE d1,
           ok |-> TRUE, raised |-> FALSE, out |-> Outcome("", obj_name, "", Msg("written", 0, ""))]

\* ------------------------------------------------------------------------
\* Script A: Source Reader and orchestrator (replicate_objects, main)
\* ------------------------------------------------------------------------
\* fetch_objects_from_disk: the raw subdirectory and files without the .json
\* suffix are ignored, a file that does not parse is skipped
fetch_objects_from_disk(entries) ==
  LET keep(e) == /\ ~(e.isDir /\ e.file.name = "raw")
                 /\ e.file.ext = ".json"
                 /\ ~e.isDir
                 /\ e.doc # Malformed
      kept == SelectSeq(entries, keep)
  IN [i \in DOMAIN kept |-> kept[i].doc]

\* every loaded item is a JSON object: cleaned.get(...) of line 30 raises
\* AttributeError on anything else
AllDicts(its) == \A i \in DOMAIN its : its[i].t = "dict"

\* lines 146-150: the result lists and the cleaned objects
A_Prepare(its) ==
  /\ items' = [i \in DOMAIN its |-> CleanPair("A", its[i]).raw]
  /\ cleaned' = [i \in DOMAIN its |-> CleanPair("A", its[i]).cleaned]
  /\ tasks' = [i \in DOMAIN its |-> NoTask]
  /\ success_list' = <<>>
  /\ failure_list' = <<>>
  /\ pc' = IF its = <<>> THEN "collect" ELSE "submit"

A_Raise(e) ==
  /\ exc' = e
  /\ pc' = "raised"
  /\ UNCHANGED <<items, cleaned, tasks, success_list, failure_list>>

\* what can happen before the thread pool is created: "ok", or the operation
\* that raises: "mkdir" (os.makedirs of raw_dir), "list" (the list request),
\* "dump" (writing raw-dump-get.json)
A_FetchOutcomes ==
  {"ok"} \cup (IF faulty /\ tgtIsDir THEN {"mkdir"} ELSE {})
         \cup (IF faulty /\ ~srcIsDir THEN {"list"} ELSE {})
         \cup (IF faulty /\ ~srcIsDir /\ tgtIsDir THEN {"dump"} ELSE {})

\* replicate_objects up to the thread pool, source on disk
A_FetchDisk ==
  /\ script = "A" /\ pc = "replicate" /\ srcIsDir
  /\ \E o \in A_FetchOutcomes :
       IF o = "ok"
       THEN /\ IF AllDicts(fetch_objects_from_disk(catalog[ti]))
               THEN A_Prepare(fetch_objects_from_disk(catalog[ti])) /\ UNCHANGED exc
               ELSE A_Raise("remove_unwanted_fields: AttributeError")
            /\ UNCHANGED diskFault
       ELSE /\ A_Raise("makedirs(raw_dir): OSError")
            /\ diskFault' = TRUE
  /\ UNCHANGED <<cvars, script, srcIsDir, tgtIsDir, codes, faulty, types, catalog, tgtDisk, ti,
                 overall_success, overall_failures, ii, versions, vi, verLog>>

\* replicate_objects up to the thread pool, source behind a URL
A_FetchUrl ==
  /\ script = "A" /\ pc = "replicate" /\ ~srcIsDir
  /\ \E o \in A_FetchOutcomes :
       IF o = "ok"
       THEN /\ LET data == JDict([items |-> JList(catalog[ti])])
               IN tgtDisk' = IF tgtIsDir THEN With(tgtDisk, Path(CurType, "raw", RawDumpFile), data)
                             ELSE tgtDisk
            /\ A_Prepare(catalog[ti])
            /\ UNCHANGED <<exc, diskFault>>
       ELSE /\ A_Raise(IF o = "list" THEN "list: HTTPError"
                        ELSE IF o = "mkdir" THEN "makedirs(raw_dir): OSError" ELSE "raw dump: OSError")
            /\ diskFault' = (diskFault \/ o # "list")
            /\ UNCHANGED tgtDisk
  /\ UNCHANGED <<cvars, script, srcIsDir, tgtIsDir, codes, faulty, types, catalog, ti,
                 overall_success, overall_failures, ii, versions, vi, verLog>>

PoolSizePerTask == Len(items)
\* ThreadPoolExecutor(max_workers=MAX_WORKERS)
PoolSize == MAX_WORKERS

Running == {i \in DOMAIN tasks : tasks[i].st = "running"}
Finished == {i \in DOMAIN tasks : tasks[i].st \in {"done", "collected"}}

\* executor.submit for the next item of the "for idx, cleaned_obj" loop
A_Submit ==
  /\ script = "A" /\ pc = "submit"
  /\ LET i == CHOOSE i \in DOMAIN tasks : tasks[i].st = "none" /\ \A j \in 1..(i - 1) : tasks[j].st # "none"
     IN /\ tasks' = [tasks EXCEPT ![i].st = "queued"]
        /\ pc' = IF i = Len(tasks) THEN "collect" ELSE "submit"
  /\ UNCHANGED <<cvars, script, srcIsDir, tgtIsDir, codes, faulty, types, catalog, tgtDisk, ti, items, cleaned,
                 success_list, failure_list, overall_success, overall_failures, exc,
                 ii, versions, vi, verLog, diskFault>>

\* a worker thread of the pool takes the oldest queued work item
A_TaskStart(i) ==
  /\ script = "A" /\ pc \in {"submit", "collect", "unwind"}
  /\ tasks[i].st = "queued"
  /\ \A j \in 1..(i - 1) : tasks[j].st # "queued"
  /\ Cardinality(Running) < PoolSize
  /\ tasks' = [tasks EXCEPT ![i].st = "running"]
  /\ UNCHANGED <<cvars, script, srcIsDir, tgtIsDir, codes, faulty, types, catalog, tgtDisk, ti, items, cleaned,
                 success_list, failure_list, overall_success, overall_failures, pc, exc,
                 ii, versions, vi, verLog, diskFault>>

\* a worker runs post_object_to_url to its end
A_TaskPost(i) ==
  /\ script = "A" /\ ~tgtIsDir
  /\ tasks[i].st = "running"
  /\ \E r \in PostResults :
       LET res == post_object_to_url_A(cleaned[i], r)
       IN tasks' = [tasks EXCEPT ![i] = [st |-> "done", ok |-> res.ok, raised |-> res.raised, out |-> res.out]]
  /\ UNCHANGED <<cvars, script, srcIsDir, tgtIsDir, codes, faulty, types, catalog, tgtDisk, ti, items, cleaned,
                 success_list, failure_list, overall_success, overall_failures, pc, exc,
                 ii, versions, vi, verLog, diskFault>>

\* a worker runs write_object_to_disk to its end
A_TaskWrite(i) ==
  /\ script = "A" /\ tgtIsDir
  /\ tasks[i].st = "running"
  /\ \E o \in (IF faulty THEN {"ok", "mkdir", "open", "raw"} ELSE {"ok"}) :
       LET res == write_object_to_disk(tgtDisk, CurType, cleaned[i], items[i], o)
       IN /\ tasks' = [tasks EXCEPT ![i] = [st |-> "done", ok |-> res.ok, raised |-> res.raised, out |-> res.out]]
          /\ tgtDisk' = res.disk
          /\ diskFault' = (diskFault \/ ~res.ok)
  /\ UNCHANGED <<cvars, script, srcIsDir, tgtIsDir, codes, faulty, types, catalog, ti, items, cleaned,
                 success_list, failure_list, overall_success, overall_failures, pc, exc,
                 ii, versions, vi, verLog>>

\* one round of "for future in as_completed(...)": future.result() returns the
\* task's outcome, or raises what the task raised
A_Collect(i) ==
  /\ script = "A" /\ pc = "collect"
  /\ tasks[i].st = "done"
  /\ tasks' = [tasks EXCEPT ![i].st = "collected"]
  /\ IF tasks[i].raised
     THEN /\ exc' = tasks[i].out.msg.kind
          /\ pc' = "unwind"
          /\ UNCHANGED <<success_list, failure_list>>
     ELSE /\ success_list' = IF tasks[i].ok THEN Append(success_list, tasks[i].out) ELSE success_list
          /\ failure_list' = IF tasks[i].ok THEN failure_list ELSE Append(failure_list, tasks[i].out)
          /\ UNCHANGED <<exc, pc>>
  /\ UNCHANGED <<cvars, script, srcIsDir, tgtIsDir, codes, faulty, types, catalog, tgtDisk, ti, items, cleaned,
                 overall_success, overall_failures, ii, versions, vi, verLog, diskFault>>

\* the exception leaves the with block: the executor is shut down with
\* wait=True, then the exception leaves replicate_objects and main
A_Unwind ==
  /\ script = "A" /\ pc = "unwind"
  /\ Finished = DOMAIN tasks
  /\ pc' = "raised"
  /\ UNCHANGED <<cvars, script, srcIsDir, tgtIsDir, codes, faulty, types, catalog, tgtDisk, ti, items, cleaned,
                 tasks, success_list, failure_list, overall_success, overall_failures, exc,
                 ii, versions, vi, verLog, diskFault>>

ReturnsWithoutWaiting == TRUE
\* the "for future in as_completed(...)" loop has yielded every future, and the
\* with block has shut the executor down (wait=True)
AllCollected == \A i \in DOMAIN tasks : tasks[i].st = "collected"

\* every future was yielded: replicate_objects returns and main extends its lists
A_Return ==
  /\ script = "A" /\ pc = "collect"
  /\ AllCollected
  /\ overall_success' = overall_success \o success_list
  /\ overall_failures' = overall_failures \o failure_list
  /\ ti' = ti + 1
  /\ pc' = IF ti = Len(types) THEN "summary" ELSE "replicate"
  /\ UNCHANGED <<cvars, script, srcIsDir, tgtIsDir, codes, faulty, types, catalog, tgtDisk, items, cleaned,
                 tasks, success_list, failure_list, exc, ii, versions, vi, verLog, diskFault>>

\* main prints the summary
A_Summary ==
  /\ script = "A" /\ pc = "summary"
  /\ pc' = "done"
  /\ UNCHANGED <<cvars, script, srcIsDir, tgtIsDir, codes, faulty, types, catalog, tgtDisk, ti, items, cleaned,
                 tasks, success_list, failure_list, overall_success, overall_failures, exc,
                 ii, versions, vi, verLog, diskFault>>

\* ------------------------------------------------------------------------
\* Script B: Target Writer
\* ------------------------------------------------------------------------
save_to_disk_path_NoVersion(object_type, name, version, raw) ==
  Path(object_type, IF raw THEN "raw" ELSE "", FileName(name, "", ".json"))
\* the path save_to_disk writes: <target>/<type>[/raw]/<name>[-<version>].json
save_to_disk_path(object_type, name, version, raw) ==
  Path(object_type, IF raw THEN "raw" ELSE "", FileName(name, version, ".json"))

\* the (success, error) pair of post_object_to_url for a status code r
post_object_to_url_B(r) ==
  IF r \in {200, 201} THEN [ok |-> TRUE, msg |-> Msg("none", 0, "")]
  ELSE [ok |-> FALSE, msg |-> Msg("status", r, "body")]

\* ------------------------------------------------------------------------
\* Script B: Source Reader and orchestrator (replicate_objects, main)
\* ------------------------------------------------------------------------
UnversionedTypes == {"computeprofiles", "serviceprofiles"}

\* object_dir.glob("*.json")
GlobJson(entries) ==
  LET match(e) == e.file.ext = ".json"
  IN SelectSeq(entries, match)

B_FetchOutcomes ==
  {"ok"} \cup (IF faulty /\ tgtIsDir THEN {"mkdir"} ELSE {})
         \cup (IF faulty /\ ~srcIsDir THEN {"list"} ELSE {})
         \cup (IF faulty /\ ~srcIsDir /\ tgtIsDir THEN {"dump"} ELSE {})

B_Raise(e) ==
  /\ exc' = e
  /\ pc' = "raised"

\* replicate_objects, lines 184-204: the items of a URL source
B_FetchUrl ==
  /\ script = "B" /\ pc = "replicate" /\ ~srcIsDir
  /\ \E o \in B_FetchOutcomes :
       IF o = "ok"
       THEN /\ items' = catalog[ti]
            /\ tgtDisk' = IF tgtIsDir THEN With(tgtDisk, Path(CurType, "", RawDumpFile), JList(catalog[ti]))
                          ELSE tgtDisk
            /\ pc' = "item"
            /\ ii' = 1
            /\ UNCHANGED <<exc, diskFault>>
       ELSE /\ B_Raise(IF o = "list" THEN "list: HTTPError"
                        ELSE IF o = "mkdir" THEN "mkdir(target): OSError" ELSE "raw dump: OSError")
            /\ diskFault' = (diskFault \/ o # "list")
            /\ UNCHANGED <<items, tgtDisk, ii>>
  /\ UNCHANGED <<cvars, script, srcIsDir, tgtIsDir, codes, faulty, types, catalog, ti, cleaned, tasks,
                 success_list, failure_list, overall_success, overall_failures, versions, vi, verLog>>

\* replicate_objects, lines 184-211: the items of a directory source; a file
\* that cannot be opened or parsed raises
B_FetchDisk ==
  /\ script = "B" /\ pc = "replicate" /\ srcIsDir
  /\ \E o \in B_FetchOutcomes :
       LET found == GlobJson(catalog[ti])
           bad == \E k \in DOMAIN found : found[k].isDir \/ found[k].doc = Malformed
       IN IF o = "ok" /\ ~bad
          THEN /\ items' = [k \in DOMAIN found |-> found[k].doc]
               /\ pc' = "item"
               /\ ii' = 1
               /\ UNCHANGED <<exc, diskFault>>
          ELSE /\ B_Raise(IF o = "ok" THEN "load: JSONDecodeError" ELSE "mkdir(target): OSError")
               /\ diskFault' = (diskFault \/ o # "ok")
               /\ UNCHANGED <<items, ii>>
  /\ UNCHANGED <<cvars, script, srcIsDir, tgtIsDir, codes, faulty, types, catalog, tgtDisk, ti, cleaned, tasks,
                 success_list, failure_list, overall_success, overall_failures, versions, vi, verLog>>

\* what the version-history endpoint may answer for an item: up to MaxVersions
\* versions of it
VersionLists(item) ==
  {[k \in 1..m |-> PipeObj(NameOf(item, "<unknown>"), Vers[k])] : m \in 0..MaxVersions}

VersionsOnFailureNone(item) == <<>>
\* "except Exception as e: ... versions = [item]"
VersionsOnFailure(item) == <<item>>

\* lines 213-227 for one item: how the versions to replicate are obtained.
\* how: "disk", "unversioned", "failed" (the version request raised) or "fetched"
B_VersionsOf(item, how, fetchedVersions) ==
  IF how \in {"disk", "unversioned"} THEN <<item>>
  ELSE IF how = "failed" THEN VersionsOnFailure(item)
  ELSE fetchedVersions

B_Hows ==
  IF srcIsDir THEN {"disk"}
  ELSE IF CurType \in UnversionedTypes THEN {"unversioned"}
  ELSE {"fetched", "failed"}

\* item["metadata"] of line 214: TypeError on a list, KeyError without the key
HasMetadata(item) == item.t = "dict" /\ "metadata" \in DOMAIN item.d

B_Versions ==
  /\ script = "B" /\ pc = "item" /\ ii <= Len(items)
  /\ IF HasMetadata(items[ii])
     THEN /\ \E how \in B_Hows :
               \E fv \in (IF how = "fetched" THEN VersionLists(items[ii]) ELSE {<<>>}) :
                 /\ versions' = B_VersionsOf(items[ii], how, fv)
                 /\ verLog' = Append(verLog, [how |-> how, versions |-> B_VersionsOf(items[ii], how, fv)])
                 /\ vi' = 1
                 /\ pc' = IF B_VersionsOf(items[ii], how, fv) = <<>> THEN "item" ELSE "version"
                 /\ ii' = IF B_VersionsOf(items[ii], how, fv) = <<>> THEN ii + 1 ELSE ii
          /\ UNCHANGED exc
     ELSE /\ B_Raise(IF items[ii].t = "dict" THEN "item[metadata]: KeyError" ELSE "item[metadata]: TypeError")
          /\ UNCHANGED <<versions, verLog, vi, ii>>
  /\ UNCHANGED <<cvars, script, srcIsDir, tgtIsDir, codes, faulty, types, catalog, tgtDisk, ti, items, cleaned, tasks,
                 success_list, failure_list, overall_success, overall_failures, diskFault>>

B_Advance ==
  /\ vi' = vi + 1
  /\ pc' = IF vi = Len(versions) THEN "item" ELSE "version"
  /\ ii' = IF vi = Len(versions) THEN ii + 1 ELSE ii

\* the two save_to_disk calls of lines 239-241. o: "ok", or the call that
\* raises: "raw" (the first) or "cleaned" (the second)
B_SaveBoth(disk, object_type, name, version_name, pair, o) ==
  IF o = "raw" THEN disk
  ELSE IF o = "cleaned"
  THEN With(disk, save_to_disk_path(object_type, name, version_name, TRUE), pair.raw)
  ELSE With(With(disk, save_to_disk_path(object_type, name, version_name, TRUE), pair.raw),
            save_to_disk_path(object_type, name, version_name, FALSE), pair.cleaned)

\* lines 229-252 for one version, target directory
B_VersionToDisk ==
  /\ script = "B" /\ pc = "version" /\ tgtIsDir
  /\ \E o \in (IF faulty THEN {"ok", "raw", "cleaned"} ELSE {"ok"}) :
       LET name == NameOf(items[ii], "<unknown>")
           version_name == VersionOf(versions[vi])
       IN /\ tgtDisk' = B_SaveBoth(tgtDisk, CurType, name, version_name, CleanPair("B", versions[vi]), o)
          /\ IF o = "ok"
             THEN /\ success_list' = Append(success_list, Outcome(CurType, name, version_name, Msg("none", 0, "")))
                  /\ B_Advance
                  /\ UNCHANGED <<exc, diskFault>>
             ELSE /\ B_Raise("save_to_disk: OSError")
                  /\ diskFault' = TRUE
                  /\ UNCHANGED <<success_list, vi, ii>>
  /\ UNCHANGED <<cvars, script, srcIsDir, tgtIsDir, codes, faulty, types, catalog, ti, items, cleaned, tasks,
                 failure_list, overall_success, overall_failures, versions, verLog>>

\* lines 229-252 for one version, target URL. r: the status code answered, or
\* 0 when requests.post raises
B_VersionToUrl ==
  /\ script = "B" /\ pc = "version" /\ ~tgtIsDir
  /\ \E r \in PostResults :
       LET version_obj == versions[vi]
           name == NameOf(items[ii], "<unknown>")
           version_name == VersionOf(version_obj)
           res == post_object_to_url_B(r)
       IN IF r = 0
          THEN /\ B_Raise("post: ConnectionError")
               /\ UNCHANGED <<success_list, failure_list, vi, ii>>
          ELSE /\ success_list' = IF res.ok
                                  THEN Append(success_list, Outcome(CurType, name, version_name, res.msg))
                                  ELSE success_list
               /\ failure_list' = IF res.ok THEN failure_list
                                  ELSE Append(failure_list, Outcome(CurType, name, version_name, res.msg))
               /\ B_Advance
               /\ UNCHANGED exc
  /\ UNCHANGED <<cvars, script, srcIsDir, tgtIsDir, codes, faulty, types, catalog, tgtDisk, ti, items, cleaned, tasks,
                 overall_success, overall_failures, versions, verLog, diskFault>>

\* the "for item in items" loop is over: replicate_objects returns
B_Return ==
  /\ script = "B" /\ pc = "item" /\ ii > Len(items)
  /\ pc' = "summary"
  /\ UNCHANGED <<cvars, script, srcIsDir, tgtIsDir, codes, faulty, types, catalog, tgtDisk, ti, items, cleaned, tasks,
                 success_list, failure_list, overall_success, overall_failures, exc,
                 ii, versions, vi, verLog, diskFault>>

\* main prints the summary
B_Summary ==
  /\ script = "B" /\ pc = "summary"
  /\ pc' = "done"
  /\ UNCHANGED <<cvars, script, srcIsDir, tgtIsDir, codes, faulty, types, catalog, tgtDisk, ti, items, cleaned, tasks,
                 success_list, failure_list, overall_success, overall_failures, exc,
                 ii, versions, vi, verLog, diskFault>>

\* ------------------------------------------------------------------------
\* Runs and specifications
\* ------------------------------------------------------------------------

\* the object types a run of the script can be asked to replicate
Selections(s) ==
  IF s = "A" THEN {SubSeq(OBJECT_TYPES_A, 1, k) : k \in 1..MaxTypes}
  ELSE {<<OBJECT_TYPES_B[k]>> : k \in DOMAIN OBJECT_TYPES_B}
\* a listing behind a URL names each object once; files of a directory need not
KindsFor(sd) == IF sd THEN ListingKinds ELSE {"distinct"}
CodeSets == {{200, 409}, {201, 500}}

\* the runs with the given scripts, selections, endpoint kinds and environment,
\* over sources holding at most maxN objects
RunInit(scripts, sels, srcDirs, tgtDirs, codeSets, faults, kinds, maxN) ==
  \E s \in scripts, sd \in srcDirs, td \in tgtDirs, cs \in codeSets, f \in faults :
    \E sel \in (Selections(s) \cap sels), k \in (KindsFor(sd) \cap kinds) :
      \E cnt \in [1..Len(sel) -> 0..maxN] :
        /\ SumSeq(cnt) <= maxN
        /\ PipeStart(s, sel, sd, td, cs, f,
                     [i \in 1..Len(sel) |->
                        IF sd THEN SourceEntries(Listing(k, cnt[i])) ELSE Listing(k, cnt[i])])

AllSelections == Selections("A") \cup Selections("B")

NextA ==
  \/ A_FetchDisk \/ A_FetchUrl \/ A_Submit
  \/ \E i \in DOMAIN tasks : A_TaskStart(i)
  \/ \E i \in DOMAIN tasks : A_TaskPost(i)
  \/ \E i \in DOMAIN tasks : A_TaskWrite(i)
  \/ \E i \in DOMAIN tasks : A_Collect(i)
  \/ A_Unwind \/ A_Return \/ A_Summary
NextB ==
  \/ B_FetchUrl \/ B_FetchDisk \/ B_Versions \/ B_VersionToDisk \/ B_VersionToUrl
  \/ B_Return \/ B_Summary

\* every run of either script
Init ==
  /\ CleanIdle
  /\ RunInit({"A", "B"}, AllSelections, BOOLEAN, BOOLEAN, CodeSets, {TRUE}, ListingKinds, MaxObjects)
Next == NextA \/ NextB
Spec == Init /\ [][Next]_vars

\* one record through either cleaner
InitClean == CleanInit /\ PipeIdle
SpecClean == InitClean /\ [][CleanNext]_vars

\* script B reading from a URL
InitVersions ==
  /\ CleanIdle
  /\ RunInit({"B"}, AllSelections, {FALSE}, BOOLEAN, {{200}, {500}}, {TRUE}, ListingKinds, MaxObjects)
NextVersions ==
  B_FetchUrl \/ B_Versions \/ B_VersionToDisk \/ B_VersionToUrl \/ B_Return \/ B_Summary
SpecVersions == InitVersions /\ [][NextVersions]_vars

\* either script, one object type, from a directory to a fresh directory
InitDisk ==
  /\ CleanIdle
  /\ RunInit({"A", "B"}, {<<"workflowhandlers">>}, {TRUE}, {TRUE}, {{}}, BOOLEAN, ListingKinds, MaxObjects)
NextDisk ==
  \/ A_FetchDisk \/ A_Submit
  \/ \E i \in DOMAIN tasks : A_TaskStart(i)
  \/ \E i \in DOMAIN tasks : A_TaskWrite(i)
  \/ \E i \in DOMAIN tasks : A_Collect(i)
  \/ A_Unwind \/ A_Return \/ A_Summary
  \/ B_FetchDisk \/ B_Versions \/ B_VersionToDisk \/ B_Return \/ B_Summary
SpecDisk == InitDisk /\ [][NextDisk]_vars

\* script A, one object type with up to MaxTasks objects, no faults
InitPool ==
  /\ CleanIdle
  /\ RunInit({"A"}, {<<"workflowhandlers">>}, {TRUE}, BOOLEAN, {{200, 500}}, {FALSE}, {"copies"}, MaxTasks)
NextPool ==
  \/ A_FetchDisk \/ A_Submit
  \/ \E i \in DOMAIN tasks : A_TaskStart(i)
  \/ \E i \in DOMAIN tasks : A_TaskPost(i)
  \/ \E i \in DOMAIN tasks : A_TaskWrite(i)
  \/ \E i \in DOMAIN tasks : A_Collect(i)
  \/ A_Return \/ A_Summary
SpecPool == InitPool /\ [][NextPool]_vars

\* script A over several object types
InitTypes ==
  /\ CleanIdle
  /\ RunInit({"A"}, AllSelections, BOOLEAN, BOOLEAN, {{200, 500}}, {TRUE}, {"distinct"}, MaxObjects)
NextTypes ==
  \/ A_FetchDisk \/ A_FetchUrl \/ A_Submit
  \/ \E i \in DOMAIN tasks : A_TaskStart(i)
  \/ \E i \in DOMAIN tasks : A_TaskPost(i)
  \/ \E i \in DOMAIN tasks : A_TaskWrite(i)
  \/ \E i \in DOMAIN tasks : A_Collect(i)
  \/ A_Unwind \/ A_Return \/ A_Summary
SpecTypes == InitTypes /\ [][NextTypes]_vars

\* the entries of <dir>/<type>/ of a directory the program has written: its files
\* and, when present, the raw subdirectory (in some order)
RECURSIVE FilesOf(_, _)
FilesOf(disk, paths) ==
  IF paths = {} THEN <<>>
  ELSE LET q == CHOOSE q \in paths : TRUE
       IN <<Entry(q.file, FALSE, disk[q])>> \o FilesOf(disk, paths \ {q})
DirEntries(disk, type) ==
  FilesOf(disk, {q \in DOMAIN disk : q.type = type /\ q.sub = ""})
    \o (IF \E q \in DOMAIN disk : q.type = type /\ q.sub = "raw"
        THEN <<Entry(FileName("raw", "", ""), TRUE, NoDoc)>> ELSE <<>>)

\* a later run of the same script, whose --source is the directory the finished
\* URL-to-disk run has written
Reuse ==
  /\ pc = "done" /\ ~srcIsDir /\ tgtIsDir
  /\ srcIsDir' = TRUE
  /\ tgtIsDir' \in BOOLEAN
  /\ catalog' = [k \in DOMAIN types |-> DirEntries(tgtDisk, types[k])]
  /\ tgtDisk' = EmptyMap
  /\ ti' = 1
  /\ items' = <<>>
  /\ cleaned' = <<>>
  /\ tasks' = <<>>
  /\ success_list' = <<>>
  /\ failure_list' = <<>>
  /\ overall_success' = <<>>
  /\ overall_failures' = <<>>
  /\ pc' = "replicate"
  /\ ii' = 0
  /\ versions' = <<>>
  /\ vi' = 0
  /\ verLog' = <<>>
  /\ UNCHANGED <<cvars, script, codes, faulty, types, exc, diskFault>>

\* a URL-to-disk run without faults, then a run reading what it wrote
InitReuse ==
  /\ CleanIdle
  /\ RunInit({"A", "B"}, {<<"workflowhandlers">>}, {FALSE}, {TRUE}, {{200}}, {FALSE}, {"distinct"}, MaxObjects)
NextReuse ==
  \/ A_FetchDisk \/ A_FetchUrl \/ A_Submit
  \/ \E i \in DOMAIN tasks : A_TaskStart(i)
  \/ \E i \in DOMAIN tasks : A_TaskPost(i)
  \/ \E i \in DOMAIN tasks : A_TaskWrite(i)
  \/ \E i \in DOMAIN tasks : A_Collect(i)
  \/ A_Return \/ A_Summary
  \/ B_FetchUrl \/ B_FetchDisk \/ B_Versions \/ B_VersionToDisk \/ B_VersionToUrl
  \/ B_Return \/ B_Summary
  \/ Reuse
SpecReuse == InitReuse /\ [][NextReuse]_vars

\* ------------------------------------------------------------------------
\* Claims about the Object Cleaner (checked under SpecClean)
\* ------------------------------------------------------------------------
StripHookList(v) ==
  IF v.t = "list"
  THEN JList([i \in DOMAIN v.l |-> IF v.l[i].t = "dict" THEN JDict(Without(v.l[i].d, {"agents"})) ELSE v.l[i]])
  ELSE v
ExpectedSpec(sp) ==
  LET s1 == Without(sp, {"sharing", "agents"})
  IN IF "hooks" \in DOMAIN s1 /\ s1["hooks"].t = "dict"
     THEN With(s1, "hooks", JDict([k \in DOMAIN s1["hooks"].d |-> StripHookList(s1["hooks"].d[k])]))
     ELSE s1
\* x with the volatile fields removed and metadata.project set, nothing else changed
ExpectedClean(x) ==
  LET meta == IF "metadata" \in DOMAIN x.d THEN x.d["metadata"].d ELSE EmptyMap
      d1 == With(Without(x.d, {"status"}), "metadata",
                 JDict(With(Without(meta, MetaFieldsB), "project", JStr(PROJECT))))
  IN IF "spec" \in DOMAIN d1 /\ d1["spec"].t = "dict"
     THEN JDict(With(d1, "spec", JDict(ExpectedSpec(d1["spec"].d))))
     ELSE JDict(d1)

\* C6: for every record x, remove_unwanted_fields(x) is x with the six volatile
\* metadata fields, spec.sharing, spec.agents, every spec.hooks.*[*].agents and
\* the top-level status removed and metadata.project set to "system-catalog",
\* all other content unchanged (stated for the cleaner of both scripts).
C6_CleanedAsSpecified ==
  out1 # 0 => Dump(heap, Ref(out1)) = ExpectedClean(fetched)

\* C7: cleaning is idempotent: cleaning the cleaned record gives the same
\* document as cleaning once, for both scripts and all input records.
C7_Idempotent ==
  cpc = "recleaned" => Dump(heap, Ref(out2)) = Dump(heap, Ref(out1))

\* a record with no metadata and no spec has been cleaned twice, and cleaning
\* changed it
C7_Witness ==
  /\ cpc = "recleaned"
  /\ "metadata" \notin DOMAIN fetched.d
  /\ "spec" \notin DOMAIN fetched.d
  /\ "status" \in DOMAIN fetched.d
  /\ Dump(heap, Ref(out1)) # fetched

\* C8: cleaning never mutates its input: after remove_unwanted_fields returns
\* the input record still serialises to the document that was fetched, and the
\* raw file written after cleaning holds that document.
C8_InputUnchanged ==
  /\ Dump(heap, Ref(src)) = fetched
  /\ cpc = "persisted" => rawFile = fetched

\* a record holding volatile metadata, sharing and hook agents was cleaned, the
\* cleaned form differs from it, and the raw form was written afterwards
C8_Witness ==
  /\ cpc = "persisted"
  /\ "metadata" \in DOMAIN fetched.d
  /\ "id" \in DOMAIN fetched.d["metadata"].d
  /\ "spec" \in DOMAIN fetched.d
  /\ "hooks" \in DOMAIN fetched.d["spec"].d
  /\ cleanedFile # fetched
  /\ cleanedFile # NoDoc

\* ------------------------------------------------------------------------
\* Claims about the pipeline
\* ------------------------------------------------------------------------
Outcomes == Len(success_list) + Len(failure_list)
\* script B: the object-versions replicate_objects has set out to write
Dispatched == SumSeq([k \in DOMAIN verLog |-> Len(verLog[k].versions)])
\* what the per-object write code raises
WriteErrors == {"makedirs(obj_path): OSError", "save_to_disk: OSError", "post: ConnectionError"}

\* C1: replicate_objects is left only after every dispatched task has finished,
\* with exactly one outcome per dispatched object-version, in the success list or
\* in the failure list; a failing task prevents no other task from running or
\* from being recorded.
C1_EveryTaskHasOneOutcome ==
  /\ (script = "A" /\ pc \in {"replicate", "summary", "done", "raised"}) =>
       /\ Finished = DOMAIN tasks
       /\ Outcomes = Len(tasks)
  /\ (script = "B" /\ pc \in {"summary", "done", "raised"}) =>
       /\ Len(verLog) = Len(items)
       /\ Outcomes = Dispatched

\* C2: a per-object write error never propagates out of replicate_objects (it
\* becomes a failure outcome and the rest of the batch is still written), and a
\* failure outcome for a refused POST carries the status code and the body.
C2_WriteErrorsBecomeOutcomes ==
  /\ exc \notin WriteErrors
  /\ \A k \in DOMAIN failure_list :
       failure_list[k].msg.kind = "status" =>
         failure_list[k].msg.code \in codes \ {200, 201, 409} /\ failure_list[k].msg.text = "body"

\* C3: a 409 answer to a creation request is recorded as a success with the
\* "already exists" diagnostic, never as a failure.
C3_ConflictIsSuccess ==
  /\ \A k \in DOMAIN failure_list : failure_list[k].msg.code # 409
  /\ \A k \in DOMAIN success_list : success_list[k].msg.code = 409 => success_list[k].msg.kind = "exists"

\* C4: in a run over several object types a failed list request aborts that type
\* only: the run goes on to the other types and to the summary (the process does
\* not end with the list error).
C4_ListFailureSkipsType ==
  (script = "A" /\ Len(types) > 1 /\ exc = "list: HTTPError") => pc # "raised"

\* C5: when the version request of an object fails the object itself is its sole
\* version and the loop goes on to the later objects; for computeprofiles and
\* serviceprofiles no version request is made and the sole version is the object.
C5_VersionFallback ==
  /\ \A k \in DOMAIN verLog :
       /\ verLog[k].how \in {"failed", "unversioned"} => verLog[k].versions = <<items[k]>>
       /\ verLog[k].how = "unversioned" <=> CurType \in UnversionedTypes
  /\ pc \in {"summary", "done"} => Len(verLog) = Len(items)
  /\ (pc = "version" /\ verLog[ii].how \in {"failed", "unversioned"}) => versions = <<items[ii]>>

\* the version request of the first object failed, the object was posted as its
\* own sole version, and a later object was replicated from its fetched versions
C5_Witness ==
  /\ pc = "done"
  /\ Len(verLog) >= 2
  /\ verLog[1].how = "failed"
  /\ verLog[2].how = "fetched"
  /\ Len(verLog[2].versions) = 2
  /\ Outcomes = 3

\* the file a record is written to below <target>/<type>/
OutFile(doc) ==
  IF script = "A" THEN FileName(NameOf(doc, "unknown"), "", ".json")
  ELSE FileName(NameOf(doc, "<unknown>"), VersionOf(doc), ".json")
DistinctOutFiles == \A i, j \in DOMAIN items : i # j => OutFile(items[i]) # OutFile(items[j])
CleanedFiles == {q \in DOMAIN tgtDisk : q.sub = ""}
RawFiles == {q \in DOMAIN tgtDisk : q.sub = "raw"}

\* C9 as stated: a disk-to-disk replication of N objects into a fresh directory,
\* in which no disk operation fails, leaves exactly N cleaned files, N raw files
\* and no failure outcome.
C9_DiskToDiskCounts ==
  (pc = "done" /\ ~diskFault) =>
    /\ Cardinality(CleanedFiles) = Len(items)
    /\ Cardinality(RawFiles) = Len(items)
    /\ failure_list = <<>>

\* C9 amended: the same, for N objects that are written to pairwise distinct
\* file names (<name>.json in script A, <name>[-<version>].json in script B).
C9_DiskToDiskCountsDistinct ==
  (pc = "done" /\ ~diskFault /\ DistinctOutFiles) =>
    /\ Cardinality(CleanedFiles) = Len(items)
    /\ Cardinality(RawFiles) = Len(items)
    /\ failure_list = <<>>
    /\ Len(success_list) = Len(items)

\* script B has replicated several versions of one object between directories
C9_Witness ==
  /\ pc = "done"
  /\ script = "B"
  /\ Len(items) = MaxObjects
  /\ DistinctOutFiles
  /\ NameOf(items[1], "") = NameOf(items[2], "")
  /\ Cardinality(RawFiles) = MaxObjects

\* C10: at every moment at most MAX_WORKERS write tasks are in progress.
C10_BoundedWorkers == Cardinality(Running) <= MAX_WORKERS

\* MAX_WORKERS tasks are in progress while a further submitted task waits
C10_Witness ==
  /\ Cardinality(Running) = MAX_WORKERS
  /\ \E i \in DOMAIN tasks : tasks[i].st = "queued"

\* the object types whose replication has begun
TypesBegun == {types[k] : k \in {j \in DOMAIN types : j < ti \/ (j = ti /\ pc # "replicate")}}

\* C11: when the replication of an object type begins, every write task of the
\* earlier types has finished and its outcome is recorded, and nothing has
\* been written for a type whose replication has not begun.
C11_TypesInSequence ==
  /\ pc = "replicate" => /\ Running = {}
                         /\ \A i \in DOMAIN tasks : tasks[i].st = "collected"
  /\ \A q \in DOMAIN tgtDisk : q.type \in TypesBegun
  /\ Len(overall_success) + Len(overall_failures) > 0 => ti > 1

\* the second type is about to begin after two tasks of the first type ran
C11_Witness ==
  /\ pc = "replicate"
  /\ ti = 2
  /\ Len(types) >= 2
  /\ Len(tasks) >= 2
  /\ Len(overall_success) + Len(overall_failures) = Len(tasks)

\* the cleaned object records a run has left in the directory now read
WrittenRecords ==
  {e.doc : e \in {x \in Range(catalog[1]) : ~x.isDir /\ x.file # RawDumpFile}}

\* C12: a later run reading the directory a URL-to-disk run has written does
\* not fail, and the records it reads are exactly the cleaned records written
\* there: no file under raw/ and no raw-dump-get.json is read as a record.
C12_TargetReadableAsSource ==
  srcIsDir =>
    /\ pc # "raised"
    /\ pc # "replicate" => /\ Range(items) = WrittenRecords
                           /\ AllDicts(items)

====
